---- MODULE Spec2Model ----
(***************************************************************************)
(* Part-time shift roster (src/main.py): the ScheduleManager store, its    *)
(* spreadsheet persistence, and the handlers of MainWindow and             *)
(* CalendarWithContextMenu that drive it.                                  *)
(*                                                                         *)
(* Dates are Julian day numbers counted from a Monday (QDate.toJulianDay() *)
(* minus 2460738, the Julian day of Monday 2025-03-03, a multiple of 7).   *)
(* A key of ScheduleManager.schedule is date.toString(Qt.ISODate), which   *)
(* is one-to-one with the date, so the day number stands for the key.      *)
(***************************************************************************)
EXTENDS Integers, Sequences, FiniteSets, Bags, TLC

VARIABLES schedule, excel, prev, last, combo, clock, exports, exported, holidays, lookup

vars == <<schedule, excel, prev, last, combo, clock, exports, exported, holidays, lookup>>

(* ------------------------------ bounds -------------------------------- *)

\* Days 0 .. NumDays-1 are the dates a range may cover.
NumDays == 16
\* Dates 0 .. NumSel-1 are the ones picked in the calendar and in the range
\* dialogs when operations are chained.
NumSel == 2
\* The chained operations stop adding once the roster holds this many entries.
MaxEntries == 2
\* Index lists handed to toggle_shift have at most this many elements.
MaxIdx == 2
\* Rows of a persisted file found at start-up.
MaxRows == 2
\* Rows of the file found at start-up when a single call is studied.
MaxSeed == 4
\* The wall clock, in seconds since start-up, runs up to MaxClock in steps of
\* ClockStep; at most MaxExports snapshots are exported.
MaxClock == 80
ClockStep == 20
MaxExports == 2
\* Holidays are looked up for NumYears years.
NumYears == 2

Days == 0 .. (NumDays - 1)
SelDays == 0 .. (NumSel - 1)
Weekdays == 1 .. 7

(* ---------------------------- small helpers --------------------------- *)

\* QDate.dayOfWeek(): 1 = Monday .. 7 = Sunday.
DayOfWeek(d) == (d % 7) + 1

\* dict operations on ScheduleManager.schedule
HasKey(s, k) == k \in DOMAIN s
Put(s, k, v) == [x \in (DOMAIN s) \cup {k} |-> IF x = k THEN v ELSE s[x]]
Del(s, k) == [x \in (DOMAIN s) \ {k} |-> s[x]]
EmptySchedule == [x \in {} |-> <<>>]

NewEntry(name, shift) == [name |-> name, shift |-> shift, absent |-> FALSE, tardy |-> FALSE]

RECURSIVE SumLen(_, _)
SumLen(s, keys) ==
    IF keys = {} THEN 0
    ELSE LET k == CHOOSE x \in keys : TRUE
         IN Len(s[k]) + SumLen(s, keys \ {k})

\* number of entries of a roster
EntryCount(s) == SumLen(s, DOMAIN s)

RECURSIVE BagOfSeq(_)
BagOfSeq(q) == IF q = <<>> THEN EmptyBag ELSE SetToBag({Head(q)}) (+) BagOfSeq(Tail(q))

(* --------------------------- persistence ------------------------------ *)

\* A spreadsheet file: whether it exists, its columns ("v5": date, name,
\* shift, absent, tardy; "v3": date, name, shift), its rows in order.
\* A row holds its cells: valid says whether the date cell reads as a date
\* (pd.to_datetime / QDate.fromString accept it) and date is then its day;
\* name and shift are texts, "" an empty cell; absent and tardy are "True",
\* "False" or "" (an empty cell).  A "v3" file has no absent/tardy cells and
\* carries "" there.
EmptyFile == [exists |-> TRUE, cols |-> "v5", rows |-> <<>>]
NoFile == [exists |-> FALSE, cols |-> "v5", rows |-> <<>>]

\* str(row['name']): read_excel reads an empty cell as NaN, str(NaN) is "nan"
StrCell(c) == IF c = "" THEN "nan" ELSE c
\* bool(row['absent']): bool(NaN) is True
BoolCell(c) == IF c = "False" THEN FALSE ELSE TRUE
\* the cell to_excel writes for a bool
CellOfBool(b) == IF b THEN "True" ELSE "False"

EnsureExcelFile(f) ==
    IF ~f.exists THEN EmptyFile
    ELSE IF f.cols # "v5" THEN EmptyFile
    ELSE f

RECURSIVE LoadRows(_, _, _)
LoadRows(s, cols, rows) ==
    IF rows = <<>> THEN s
    ELSE LET row == Head(rows)
             s1 == IF row.valid
                   THEN LET s0 == IF HasKey(s, row.date) THEN s ELSE Put(s, row.date, <<>>)
                        IN Put(s0, row.date, Append(s0[row.date],
                               [name |-> StrCell(row.name),
                                shift |-> row.shift,
                                absent |-> IF cols = "v5" THEN BoolCell(row.absent) ELSE FALSE,
                                tardy |-> IF cols = "v5" THEN BoolCell(row.tardy) ELSE FALSE]))
                   ELSE s
         IN LoadRows(s1, cols, Tail(rows))

LoadSchedule(f) == LoadRows(EmptySchedule, f.cols, f.rows)

\* The rows save_schedule writes: one per entry, date by date.  The dict is
\* walked in key insertion order; no operation reads the order of the dates
\* in the file, so the dates are walked in ascending order here.
RECURSIVE RowsOf(_, _)
RowsOf(s, keys) ==
    IF keys = {} THEN <<>>
    ELSE LET k == CHOOSE x \in keys : \A y \in keys : x <= y
         IN [i \in 1 .. Len(s[k]) |->
                [valid |-> TRUE, date |-> k, name |-> s[k][i].name,
                 shift |-> s[k][i].shift, absent |-> CellOfBool(s[k][i].absent),
                 tardy |-> CellOfBool(s[k][i].tardy)]]
            \o RowsOf(s, keys \ {k})

SaveSchedule(s) == [exists |-> TRUE, cols |-> "v5", rows |-> RowsOf(s, DOMAIN s)]

\* export_to_excel: the snapshot files on disk, by name.  The name is
\* strftime("%Y%m%d%H%M") of the wall clock: the minute, the seconds dropped.
SecondsPerMinute == 60
Timestamp(now) == now \div SecondsPerMinute
NoExports == [x \in {} |-> <<>>]
\* the files after a call at time now, and the name the call returns
export_to_excel(s, files, now) ==
    [files |-> [x \in (DOMAIN files) \cup {Timestamp(now)} |->
                   IF x = Timestamp(now) THEN RowsOf(s, DOMAIN s) ELSE files[x]],
     filename |-> Timestamp(now)]

(* -------------------------- holiday lookup ---------------------------- *)

\* MainWindow.__init__ looks up 2025; the button looks up the current year.
FirstYear == 2025
Years == FirstYear .. (FirstYear + NumYears - 1)
\* for month in range(1, 13)
NumMonths == 12
Months == 1 .. NumMonths

\* holidays_<year>.json: whether it exists, whether json.load accepts it, and
\* its mapping, written as the set of months whose answer went into it.
NoCacheFile == [exists |-> FALSE, readable |-> FALSE, months |-> {}]
BrokenCacheFile == [exists |-> TRUE, readable |-> FALSE, months |-> {}]
CacheFile(months) == [exists |-> TRUE, readable |-> TRUE, months |-> months]
NoCache == [y \in Years |-> NoCacheFile]
\* the cache files the program may find when it starts
StartCaches == [Years -> {NoCacheFile, BrokenCacheFile}]

\* the months whose request fails during one lookup: none, one, or all
FailSets == {{}} \cup {{m} : m \in Months} \cup {Months}

\* fetch_holiday_info_for_year(year).  keyOk: key.txt is read and has a
\* second line; failed: the months whose request or parse raises; writeOk:
\* the cache file can be written.  requested: the months asked of the
\* service.
fetch_holiday_info_for_year(files, year, keyOk, failed, writeOk) ==
    IF files[year].exists /\ files[year].readable
    THEN [files |-> files, result |-> files[year].months, requested |-> {}, hit |-> TRUE]
    ELSE IF ~keyOk
    THEN [files |-> files, result |-> {}, requested |-> {}, hit |-> FALSE]
    ELSE LET holiday_info == Months \ failed
         IN [files |-> IF writeOk THEN [files EXCEPT ![year] = CacheFile(holiday_info)]
                       ELSE files,
             result |-> holiday_info, requested |-> Months, hit |-> FALSE]

\* lookup: the lookup that ran last (valid while last.op = "holiday")
NoLookup == [year |-> FirstYear, keyOk |-> TRUE, failed |-> {}, writeOk |-> TRUE,
             hit |-> FALSE, requested |-> {}, result |-> {}]

(* -------------------------- ScheduleManager --------------------------- *)

OppositeShift(base) == IF base = "AM" THEN "PM" ELSE "AM"

\* A faulty fan-out, against which C3 is tried: only the first shift of the
\* list is appended.
AppendFirstShift(lst, name, shifts) ==
    IF shifts = <<>> THEN lst ELSE Append(lst, NewEntry(name, Head(shifts)))

RECURSIVE AppendShifts(_, _, _)
AppendShifts(lst, name, shifts) ==
    IF shifts = <<>> THEN lst
    ELSE AppendShifts(Append(lst, NewEntry(name, Head(shifts))), name, Tail(shifts))

\* A faulty pass, against which C16 is tried: an entry equal to one the date
\* already holds is not appended again.
AddDayDistinct(s, name, shifts, info, start, current) ==
    LET dow == DayOfWeek(current) IN
    IF info[dow].enabled
    THEN LET s0 == IF HasKey(s, current) THEN s ELSE Put(s, current, <<>>)
             held == {s0[current][i] : i \in 1 .. Len(s0[current])}
             shift_to_use == IF ((current - start) \div 7) % 2 = 0 THEN info[dow].base
                             ELSE OppositeShift(info[dow].base)
             wanted == IF info[dow].biweekly THEN <<shift_to_use>> ELSE shifts
         IN Put(s0, current,
                AppendShifts(s0[current], name,
                             SelectSeq(wanted, LAMBDA sh : NewEntry(name, sh) \notin held)))
    ELSE s

\* A faulty pass, against which C2 is tried: the week offset is counted from
\* the calendar's week grid instead of from the start date.
AddDayCalendarWeek(s, name, shifts, info, start, current) ==
    LET dow == DayOfWeek(current) IN
    IF info[dow].enabled
    THEN LET s0 == IF HasKey(s, current) THEN s ELSE Put(s, current, <<>>)
         IN IF info[dow].biweekly
            THEN LET week_offset == (current \div 7) - (start \div 7)
                     base_shift == info[dow].base
                     shift_to_use == IF week_offset % 2 = 0 THEN base_shift
                                     ELSE OppositeShift(base_shift)
                 IN Put(s0, current, Append(s0[current], NewEntry(name, shift_to_use)))
            ELSE Put(s0, current, AppendShifts(s0[current], name, shifts))
    ELSE s

\* one pass of the while loop of add_schedule
AddDay(s, name, shifts, info, start, current) ==
    LET dow == DayOfWeek(current) IN
    IF info[dow].enabled
    THEN LET s0 == IF HasKey(s, current) THEN s ELSE Put(s, current, <<>>)
         IN IF info[dow].biweekly
            THEN LET week_offset == (current - start) \div 7
                     base_shift == info[dow].base
                     shift_to_use == IF week_offset % 2 = 0 THEN base_shift
                                     ELSE OppositeShift(base_shift)
                 IN Put(s0, current, Append(s0[current], NewEntry(name, shift_to_use)))
            ELSE Put(s0, current, AppendShifts(s0[current], name, shifts))
    ELSE s

RECURSIVE AddLoop(_, _, _, _, _, _, _)
AddLoop(s, name, shifts, info, start, current, end) ==
    IF current > end THEN s
    ELSE AddLoop(AddDay(s, name, shifts, info, start, current),
                 name, shifts, info, start, current + 1, end)

\* What a method or a handler leaves behind: the roster, the file, and how it
\* ended ("ok": ran to its end and saved; "noop": returned without touching
\* the roster or the file; "rejected": a validation warning; "IndexError").
Outcome(s, f, result) == [sched |-> s, file |-> f, result |-> result]
Saved(s) == Outcome(s, SaveSchedule(s), "ok")

add_schedule(s, f, name, shifts, info, start, end) ==
    Saved(AddLoop(s, name, shifts, info, start, start, end))

\* Faulty deletions.  C8 is tried against one that keeps the key of a date
\* whose list became empty, C9 against one that removes only the first entry
\* of the name (list.remove instead of the list comprehension).
DeleteDayKeepKey(s, name, current) ==
    IF HasKey(s, current)
    THEN Put(s, current, SelectSeq(s[current], LAMBDA e : e.name # name))
    ELSE s

DeleteDayFirst(s, name, current) ==
    IF HasKey(s, current) /\ \E i \in 1 .. Len(s[current]) : s[current][i].name = name
    THEN LET i == CHOOSE j \in 1 .. Len(s[current]) :
                      /\ s[current][j].name = name
                      /\ \A m \in 1 .. (j - 1) : s[current][m].name # name
             kept == SubSeq(s[current], 1, i - 1) \o SubSeq(s[current], i + 1, Len(s[current]))
         IN IF kept = <<>> THEN Del(s, current) ELSE Put(s, current, kept)
    ELSE s

DeleteDay(s, name, current) ==
    IF HasKey(s, current)
    THEN LET kept == SelectSeq(s[current], LAMBDA e : e.name # name)
         IN IF kept = <<>> THEN Del(s, current) ELSE Put(s, current, kept)
    ELSE s

RECURSIVE DeleteLoop(_, _, _, _)
DeleteLoop(s, name, current, end) ==
    IF current > end THEN s
    ELSE DeleteLoop(DeleteDay(s, name, current), name, current + 1, end)

delete_schedule(s, f, name, start, end) == Saved(DeleteLoop(s, name, start, end))

\* list[idx] of Python: idx in -len .. len-1, a negative one counts from the end
IndexOk(lst, idx) == -Len(lst) <= idx /\ idx < Len(lst)
Position(lst, idx) == IF idx >= 0 THEN idx + 1 ELSE Len(lst) + idx + 1

\* A faulty flip, against which C19 is tried: the shift is set to PM.
SetEntryPM(e) == [e EXCEPT !.shift = "PM"]

ToggleEntry(e) == [e EXCEPT !.shift = IF e.shift = "PM" THEN "AM" ELSE "PM"]

\* the for loop of toggle_shift: the roster when the loop ends, and whether it
\* ended by IndexError (the entries flipped before the error stay flipped)
RECURSIVE ToggleLoop(_, _, _)
ToggleLoop(s, key, indices) ==
    IF indices = <<>> THEN [sched |-> s, raised |-> FALSE]
    ELSE LET idx == Head(indices) IN
         IF ~IndexOk(s[key], idx) THEN [sched |-> s, raised |-> TRUE]
         ELSE LET p == Position(s[key], idx)
              IN ToggleLoop([s EXCEPT ![key][p] = ToggleEntry(s[key][p])], key, Tail(indices))

\* save_schedule is reached only when the loop ends without an error
toggle_shift(s, f, date, indices) ==
    IF HasKey(s, date)
    THEN LET r == ToggleLoop(s, date, indices)
         IN IF r.raised THEN Outcome(r.sched, f, "IndexError") ELSE Saved(r.sched)
    ELSE Outcome(s, f, "noop")

(* ------------------------------ inputs -------------------------------- *)

\* what a user may type into a name field, and QString/str strip() of it
NameTexts == {"", " ", "Kim", "Lee "}
Strip(text) ==
    CASE text = " " -> ""
      [] text = "Lee " -> "Lee"
      [] OTHER -> text

\* names handed to the store directly
StoreNames == {"Kim", "Lee"}
\* every name an entry can carry
AllNames == {"", "Kim", "Lee", "nan"}

\* the list add_employee_schedule builds from am_check and pm_check
ShiftsOf(am, pm) == (IF am THEN <<"AM">> ELSE <<>>) \o (IF pm THEN <<"PM">> ELSE <<>>)
ShiftLists == {ShiftsOf(am, pm) : am \in BOOLEAN, pm \in BOOLEAN}

\* one row of weekday_checks: (day_cb, biweekly_cb, biweekly_combo).  The
\* code reads biweekly_cb and the combo only when day_cb is checked, so an
\* unchecked day is written in one way.
DayOff == [enabled |-> FALSE, biweekly |-> FALSE, base |-> "AM"]
DayPlain == [enabled |-> TRUE, biweekly |-> FALSE, base |-> "AM"]
DayBiweekly(base) == [enabled |-> TRUE, biweekly |-> TRUE, base |-> base]
DayChoices == {DayOff, DayPlain, DayBiweekly("AM"), DayBiweekly("PM")}

\* the states of weekday_checks in which only weekdays of wds are checked
RulesOn(wds) ==
    {[w \in Weekdays |-> IF w \in wds THEN pick[w] ELSE DayOff] : pick \in [wds -> DayChoices]}

NoRule == [w \in Weekdays |-> DayOff]

\* weekdays of the dates picked when operations are chained
SelWeekdays == {DayOfWeek(d) : d \in SelDays}

\* the rules of chained calls: at most one weekday is checked
ChainRules == UNION {RulesOn({w}) : w \in SelWeekdays}
\* the rules of a single call: any of the first two weekdays of the range
WideRules == RulesOn({1, 2})

\* index lists for toggle_shift on a list of n entries: the positions of the
\* list, the negative ones Python accepts, and one beyond at each end
IdxRange(n) == (0 - n - 1) .. n
IndexLists(n, max) == UNION {[1 .. k -> IdxRange(n)] : k \in 0 .. max}

\* the ascending list of the checked boxes of a dialog over n entries
RECURSIVE Ascending(_, _)
Ascending(set, from) ==
    IF set = {} THEN <<>>
    ELSE LET m == CHOOSE x \in set : \A y \in set : x <= y
         IN <<m>> \o Ascending(set \ {m}, m)
getSelectedIndices(checked) == Ascending(checked, 0)

(* ---------------------------- the record ------------------------------ *)

\* last: the operation that ran last, with its arguments and how it ended.
\* prev: the roster before that operation.
\* At start-up the record holds the file found on disk (found); afterwards
\* found is NoFile.
NoOp == [op |-> "init", name |-> "", shifts |-> <<>>, info |-> NoRule, start |-> 0,
         end |-> 0, date |-> 0, indices |-> <<>>, flags |-> <<>>, result |-> "ok",
         found |-> NoFile]

(* ----------------------- context-menu handlers ------------------------ *)

\* A faulty accept, against which C14 is tried: a checked box flips the flag of
\* the entry instead of setting it.
SetFlagsToggle(lst, flags) ==
    [i \in 1 .. Len(lst) |-> [lst[i] EXCEPT !.absent = (lst[i].absent # flags[i][1]),
                                           !.tardy = (lst[i].tardy # flags[i][2])]]

\* AttendanceDialog.accept: every entry of the list takes the state of its
\* two check boxes; flags[i] = <<absent, tardy>> of row i
SetFlags(lst, flags) ==
    [i \in 1 .. Len(lst) |-> [lst[i] EXCEPT !.absent = flags[i][1], !.tardy = flags[i][2]]]

\* contextMenuEvent, action_attendance
action_attendance(s, f, date, accepted, flags) ==
    IF HasKey(s, date) /\ accepted
    THEN Saved(Put(s, date, SetFlags(s[date], flags)))
    ELSE Outcome(s, f, "noop")

\* AddWorkerDialog.getValues: the first item of shift_combo stands for AM
getValues(text, shiftItem) == <<Strip(text), IF shiftItem = 1 THEN "AM" ELSE "PM">>

\* contextMenuEvent, action_add
action_add(s, f, date, accepted, text, shiftItem) ==
    IF accepted
    THEN LET v == getValues(text, shiftItem)
             s0 == IF HasKey(s, date) THEN s ELSE Put(s, date, <<>>)
         IN Saved(Put(s0, date, Append(s0[date], NewEntry(v[1], v[2]))))
    ELSE Outcome(s, f, "noop")

\* del lst[i], i counted from 0
RemoveAt(lst, i) == SubSeq(lst, 1, i) \o SubSeq(lst, i + 2, Len(lst))

\* A faulty removal, against which C13 is tried: the positions are deleted in
\* ascending order, each deletion shifting the entries behind it.
RECURSIVE RemoveAscending(_, _)
RemoveAscending(lst, indices) ==
    IF indices = <<>> THEN lst
    ELSE RemoveAscending(IF Head(indices) < Len(lst) THEN RemoveAt(lst, Head(indices)) ELSE lst,
                         Tail(indices))

\* for i in sorted(indices, reverse=True): del lst[i]
RECURSIVE RemoveDescending(_, _)
RemoveDescending(lst, indices) ==
    IF indices = <<>> THEN lst
    ELSE RemoveDescending(RemoveAt(lst, indices[Len(indices)]),
                          SubSeq(indices, 1, Len(indices) - 1))

\* A faulty handler, against which C4 is tried: the entries are removed and
\* save_schedule is not called.
action_delete_unsaved(s, f, date, accepted, checked) ==
    LET indices == getSelectedIndices(checked) IN
    IF HasKey(s, date) /\ accepted /\ indices # <<>>
    THEN LET kept == RemoveDescending(s[date], indices)
         IN Outcome(IF kept = <<>> THEN Del(s, date) ELSE Put(s, date, kept), f, "ok")
    ELSE Outcome(s, f, "noop")

\* contextMenuEvent, action_delete; checked: the boxes checked in the dialog
action_delete(s, f, date, accepted, checked) ==
    LET indices == getSelectedIndices(checked) IN
    IF HasKey(s, date) /\ accepted /\ indices # <<>>
    THEN LET kept == RemoveDescending(s[date], indices)
         IN Saved(IF kept = <<>> THEN Del(s, date) ELSE Put(s, date, kept))
    ELSE Outcome(s, f, "noop")

\* contextMenuEvent, action_shift_change
action_shift_change(s, f, date, accepted, checked) ==
    LET indices == getSelectedIndices(checked) IN
    IF HasKey(s, date) /\ accepted /\ indices # <<>>
    THEN toggle_shift(s, f, date, indices)
    ELSE Outcome(s, f, "noop")

(* ------------------------------ start-up ------------------------------ *)

SeedRows ==
    { [valid |-> TRUE, date |-> 0, name |-> "Kim", shift |-> "AM", absent |-> "False", tardy |-> "False"],
      [valid |-> TRUE, date |-> 0, name |-> "Lee", shift |-> "PM", absent |-> "True", tardy |-> "False"],
      [valid |-> TRUE, date |-> 0, name |-> "Kim", shift |-> "PM", absent |-> "False", tardy |-> "True"],
      [valid |-> TRUE, date |-> 1, name |-> "Kim", shift |-> "Night", absent |-> "", tardy |-> "False"],
      [valid |-> FALSE, date |-> 0, name |-> "Kim", shift |-> "AM", absent |-> "False", tardy |-> "False"] }

\* absent/tardy cells do not exist in a three-column file
V3Row(r) == [r EXCEPT !.absent = "", !.tardy = ""]

RowLists(max) == UNION {[1 .. n -> SeedRows] : n \in 0 .. max}

FilesV5(max) == {[exists |-> TRUE, cols |-> "v5", rows |-> rows] : rows \in RowLists(max)}
FilesV3(max) ==
    {[exists |-> TRUE, cols |-> "v3", rows |-> [i \in DOMAIN rows |-> V3Row(rows[i])]] :
        rows \in RowLists(max)}

\* the files the program may find when it starts
SeedFiles == {NoFile} \cup FilesV5(MaxRows) \cup FilesV3(MaxRows)

\* names offered by del_name_combo, in the order sorted() gives them
NameOrder == <<"", "Kim", "Lee", "nan">>
\* A faulty walk, against which C15 is tried: only the first entry of each
\* date is looked at.
NamesOfFirst(s) == {s[k][1].name : k \in {x \in DOMAIN s : s[x] # <<>>}}

NamesIn(s) == UNION {{s[k][i].name : i \in 1 .. Len(s[k])} : k \in DOMAIN s}
FirstName(items) ==
    LET i == CHOOSE j \in 1 .. Len(NameOrder) :
                 /\ NameOrder[j] \in items
                 /\ \A m \in 1 .. (j - 1) : NameOrder[m] \notin items
    IN NameOrder[i]

\* update_del_combo: the items are rebuilt, one per name in sorted order; the
\* text shown before stays current when it is still an item, else the first
\* item becomes current
update_del_combo(c, s) ==
    LET names == NamesIn(s)
        current == IF c.items # <<>> THEN c.current ELSE ""
    IN [items |-> SelectSeq(NameOrder, LAMBDA n : n \in names),
        current |-> IF current \in names THEN current
                    ELSE IF names = {} THEN "" ELSE FirstName(names)]

EmptyCombo == [items |-> <<>>, current |-> ""]

\* ScheduleManager.__init__ then MainWindow.__init__ on the file f
StartedWith(f, caches) ==
    /\ excel = EnsureExcelFile(f)
    /\ schedule = LoadSchedule(EnsureExcelFile(f))
    /\ prev = LoadSchedule(EnsureExcelFile(f))
    /\ last = [NoOp EXCEPT !.found = f]
    /\ combo = update_del_combo(EmptyCombo, LoadSchedule(EnsureExcelFile(f)))
    /\ clock = 0
    /\ exports = NoExports
    /\ exported = <<>>
    /\ holidays = caches
    /\ lookup = NoLookup

\* the start when no holiday cache is on disk
Started(f) == StartedWith(f, NoCache)

Init == \E f \in SeedFiles : Started(f)

(* ------------------------- MainWindow handlers ------------------------ *)

\* DateRangeDialog.getDateRange: the two dates picked, swapped when reversed
getDateRange(a, b) == IF a > b THEN <<b, a>> ELSE <<a, b>>

\* The range fields (add_start_date, add_end_date) and (del_start_date,
\* del_end_date): <<>> while they are None, else <<start, end>>.
NoRange == <<>>

\* add_employee_schedule, up to the call of update_del_combo
add_employee_schedule(s, f, text, am, pm, info, range) ==
    LET name == Strip(text)
        shifts == ShiftsOf(am, pm)
    IN IF name = "" THEN Outcome(s, f, "rejected")
       ELSE IF shifts = <<>> THEN Outcome(s, f, "rejected")
       ELSE IF range = NoRange THEN Outcome(s, f, "rejected")
       ELSE add_schedule(s, f, name, shifts, info, range[1], range[2])

\* delete_employee_schedule, up to the call of update_del_combo; c is
\* del_name_combo
delete_employee_schedule(s, f, c, range) ==
    LET name == c.current
    IN IF name = "" THEN Outcome(s, f, "rejected")
       ELSE IF range = NoRange THEN Outcome(s, f, "rejected")
       ELSE delete_schedule(s, f, name, range[1], range[2])

\* both handlers refresh del_name_combo unless they returned at a warning
ComboAfter(c, r) == IF r.result = "rejected" THEN c ELSE update_del_combo(c, r.sched)

(* ------------------------------ actions ------------------------------- *)

\* The program waits in the event loop: no call is in progress or on record.
AtRest == last.op \in {"init", "idle"}
\* The program has just started.
Fresh == last.op = "init"

\* The roster stops growing at MaxEntries entries when calls are chained.
Within(r) == EntryCount(r.sched) <= MaxEntries \/ EntryCount(r.sched) <= EntryCount(schedule)

\* a call ended as r; l records it
Ended(r, l) ==
    /\ schedule' = r.sched
    /\ excel' = r.file
    /\ prev' = schedule
    /\ last' = [l EXCEPT !.result = r.result]
    /\ UNCHANGED <<clock, exports, exported, holidays, lookup>>

\* a call of the store or of the context menu: del_name_combo is not touched
Ran(r, l) == Ended(r, l) /\ UNCHANGED combo

FlagLists(n) == [1 .. n -> BOOLEAN \X BOOLEAN]
ListLen(s, date) == IF HasKey(s, date) THEN Len(s[date]) ELSE 0

\* ScheduleManager.add_schedule(name, shifts, weekday_info, start, end)
AddScheduleFrom(names, rules, days, capped) ==
    \E name \in names, shifts \in ShiftLists, info \in rules, start \in days, end \in days :
        \E r \in {add_schedule(schedule, excel, name, shifts, info, start, end)} :
        /\ start <= end
        /\ capped => Within(r)
        /\ Ran(r, [NoOp EXCEPT !.op = "add", !.name = name, !.shifts = shifts,
                               !.info = info, !.start = start, !.end = end])

\* ScheduleManager.delete_schedule(name, start, end)
DeleteScheduleFrom(names, days) ==
    \E name \in names, start \in days, end \in days :
        /\ start <= end
        /\ \E r \in {delete_schedule(schedule, excel, name, start, end)} :
             Ran(r, [NoOp EXCEPT !.op = "delete", !.name = name, !.start = start, !.end = end])

\* ScheduleManager.toggle_shift(date, indices), with at most max indices; the
\* list is not read when the date has no key
ToggleShiftFrom(days, max) ==
    \E date \in days :
      \E indices \in IF HasKey(schedule, date)
                     THEN IndexLists(Len(schedule[date]), max) ELSE {<<>>} :
      \E r \in {toggle_shift(schedule, excel, date, indices)} :
        Ran(r, [NoOp EXCEPT !.op = "toggle", !.date = date, !.indices = indices])

\* right click on a date, "change attendance"
AttendanceFrom(days) ==
    \E date \in days, accepted \in BOOLEAN :
      \E flags \in IF accepted THEN FlagLists(ListLen(schedule, date)) ELSE {<<>>} :
      \E r \in {action_attendance(schedule, excel, date, accepted, flags)} :
        Ran(r, [NoOp EXCEPT !.op = "attendance", !.date = date, !.flags = flags])

\* right click on a date, "add a worker on this date"
ContextAddFrom(days, texts, capped) ==
    \E date \in days, accepted \in BOOLEAN :
      \E text \in IF accepted THEN texts ELSE {""}, shiftItem \in IF accepted THEN 1 .. 2 ELSE {1} :
        \E r \in {action_add(schedule, excel, date, accepted, text, shiftItem)} :
        /\ capped => Within(r)
        /\ Ran(r, [NoOp EXCEPT !.op = "ctxadd", !.date = date, !.name = Strip(text),
                               !.shifts = <<getValues(text, shiftItem)[2]>>])

\* right click on a date, "delete workers of this date"
ContextDeleteFrom(days) ==
    \E date \in days, accepted \in BOOLEAN :
      \E checked \in IF accepted THEN SUBSET (0 .. (ListLen(schedule, date) - 1)) ELSE {{}} :
      \E r \in {action_delete(schedule, excel, date, accepted, checked)} :
        Ran(r, [NoOp EXCEPT !.op = "ctxdelete", !.date = date,
                            !.indices = getSelectedIndices(checked)])

\* Back in the event loop (app.exec()): the record of the call is dropped.
ReturnToEventLoop ==
    /\ ~AtRest
    /\ last' = [NoOp EXCEPT !.op = "idle"]
    /\ prev' = EmptySchedule
    /\ lookup' = NoLookup
    /\ UNCHANGED <<schedule, excel, combo, clock, exports, exported, holidays>>

(* Spec: the store and the context menu driven by any chain of calls. *)

AddSchedule == AtRest /\ AddScheduleFrom({"Kim"}, ChainRules, SelDays, TRUE)
DeleteSchedule == AtRest /\ DeleteScheduleFrom(StoreNames, SelDays)
ToggleShift == AtRest /\ ToggleShiftFrom(SelDays, 1)
AttendanceChange == AtRest /\ AttendanceFrom(SelDays)
ContextAdd == AtRest /\ ContextAddFrom(SelDays, {"Kim", "Lee "}, TRUE)
ContextDelete == AtRest /\ ContextDeleteFrom(SelDays)

Next ==
    \/ ReturnToEventLoop
    \/ AddSchedule
    \/ DeleteSchedule
    \/ ToggleShift
    \/ AttendanceChange
    \/ ContextAdd
    \/ ContextDelete

Spec == Init /\ [][Next]_vars

(* SpecCall: one call of add_schedule, with wide arguments, on the roster *)
(* found at start-up.                                                     *)

AddScheduleOnce == Fresh /\ AddScheduleFrom({"Kim"}, WideRules, Days, FALSE)

NextCall == AddScheduleOnce

\* the files of the current five-column layout
InitCall == \E f \in FilesV5(MaxRows) : Started(f)

SpecCall == InitCall /\ [][NextCall]_vars

(* SpecEdit: one call that edits the entries of the roster found at      *)
(* start-up.                                                              *)

DeleteScheduleOnce == Fresh /\ DeleteScheduleFrom(AllNames, SelDays)
ToggleShiftOnce == Fresh /\ ToggleShiftFrom(SelDays, MaxIdx)
AttendanceOnce == Fresh /\ AttendanceFrom(SelDays)
ContextAddOnce == Fresh /\ ContextAddFrom(SelDays, NameTexts, FALSE)
ContextDeleteOnce == Fresh /\ ContextDeleteFrom(SelDays)

NextEdit ==
    \/ DeleteScheduleOnce
    \/ ToggleShiftOnce
    \/ AttendanceOnce
    \/ ContextAddOnce
    \/ ContextDeleteOnce

InitEdit == \E f \in FilesV5(MaxSeed) : Started(f)

SpecEdit == InitEdit /\ [][NextEdit]_vars

(* SpecUI: the window driven by the user, started without a file. *)

\* the states of the range fields, and the rules the form is set to
UIRanges == {NoRange} \cup {getDateRange(a, b) : a \in SelDays, b \in SelDays}
UIRules == RulesOn({1})

\* "add worker" button; the fields of the form are the user's input.  The
\* record keeps the state of the form; behind an empty name, which the
\* handler refuses first, the other fields are left as they start.
AddEmployeeSchedule ==
    /\ AtRest
    /\ \E text \in {"", " ", "Kim"} :
       \E am \in IF Strip(text) = "" THEN {FALSE} ELSE BOOLEAN,
          pm \in IF Strip(text) = "" THEN {FALSE} ELSE BOOLEAN :
       \E range \in IF Strip(text) = "" THEN {NoRange} ELSE UIRanges :
       \E info \in IF range = NoRange THEN {NoRule} ELSE UIRules :
        \E r \in {add_employee_schedule(schedule, excel, text, am, pm, info, range)} :
        /\ Within(r)
        /\ Ended(r, [NoOp EXCEPT !.op = "uiadd", !.name = Strip(text),
                                 !.shifts = ShiftsOf(am, pm), !.info = info,
                                 !.indices = range])
        /\ combo' = ComboAfter(combo, r)

\* "delete worker" button
DeleteEmployeeSchedule ==
    /\ AtRest
    /\ \E range \in UIRanges :
        \E r \in {delete_employee_schedule(schedule, excel, combo, range)} :
        /\ Ended(r, [NoOp EXCEPT !.op = "uidelete", !.name = combo.current,
                                 !.indices = range])
        /\ combo' = ComboAfter(combo, r)

\* the user picks a name in del_name_combo
SelectDelName ==
    /\ AtRest
    /\ \E i \in 1 .. Len(combo.items) :
        /\ combo.items[i] # combo.current
        /\ combo' = [combo EXCEPT !.current = combo.items[i]]
    /\ UNCHANGED <<schedule, excel, prev, last, clock, exports, exported, holidays, lookup>>

\* right click on a date, "change shift"
ContextShiftChange ==
    /\ AtRest
    /\ \E date \in SelDays, accepted \in BOOLEAN :
        \E checked \in IF accepted THEN SUBSET (0 .. (ListLen(schedule, date) - 1)) ELSE {{}} :
        \E r \in {action_shift_change(schedule, excel, date, accepted, checked)} :
          Ran(r, [NoOp EXCEPT !.op = "ctxtoggle", !.date = date,
                              !.indices = getSelectedIndices(checked)])

ContextAddUI == AtRest /\ ContextAddFrom(SelDays, {" ", "Kim"}, TRUE)

NextUI ==
    \/ ReturnToEventLoop
    \/ AddEmployeeSchedule
    \/ DeleteEmployeeSchedule
    \/ SelectDelName
    \/ ContextShiftChange
    \/ AttendanceChange
    \/ ContextAddUI
    \/ ContextDelete

InitUI == Started(NoFile)

SpecUI == InitUI /\ [][NextUI]_vars

(* SpecExport: snapshots exported while the roster is edited and time     *)
(* passes; the window is started without a file.                          *)

\* "export" button: MainWindow.export_schedule calls export_to_excel.
\* exported records, call by call, the name returned and the rows written.
ExportSchedule ==
    /\ AtRest
    /\ Len(exported) < MaxExports
    /\ \E r \in {export_to_excel(schedule, exports, clock)} :
        /\ exports' = r.files
        /\ exported' = Append(exported, [file |-> r.filename, rows |-> r.files[r.filename]])
    /\ last' = [NoOp EXCEPT !.op = "export"]
    /\ prev' = schedule
    /\ UNCHANGED <<schedule, excel, combo, clock, holidays, lookup>>

\* datetime.datetime.now() moves on between two clicks
Tick ==
    /\ AtRest
    /\ clock + ClockStep <= MaxClock
    /\ clock' = clock + ClockStep
    /\ UNCHANGED <<schedule, excel, prev, last, combo, exports, exported, holidays, lookup>>

ContextAddKim == AtRest /\ ContextAddFrom(SelDays, {"Kim"}, TRUE)

NextExport ==
    \/ ReturnToEventLoop
    \/ ExportSchedule
    \/ Tick
    \/ ContextAddKim
    \/ ContextDelete

SpecExport == InitUI /\ [][NextExport]_vars

(* SpecHoliday: holiday lookups, one after another, for any of the years;  *)
(* the key file, the service and the disk may fail at each lookup.        *)

\* fetch_holiday_info_for_year called by MainWindow.__init__ and by the
\* "fetch holidays" button.  What the call does not read is left as it starts.
FetchHolidayInfo ==
    /\ AtRest
    /\ \E year \in Years :
       \E keyOk \in IF holidays[year].exists /\ holidays[year].readable THEN {TRUE} ELSE BOOLEAN :
       \E failed \in IF (holidays[year].exists /\ holidays[year].readable) \/ ~keyOk
                     THEN {{}} ELSE FailSets,
          writeOk \in IF (holidays[year].exists /\ holidays[year].readable) \/ ~keyOk
                      THEN {TRUE} ELSE BOOLEAN :
        \E r \in {fetch_holiday_info_for_year(holidays, year, keyOk, failed, writeOk)} :
        /\ holidays' = r.files
        /\ lookup' = [year |-> year, keyOk |-> keyOk, failed |-> failed, writeOk |-> writeOk,
                      hit |-> r.hit, requested |-> r.requested, result |-> r.result]
    /\ last' = [NoOp EXCEPT !.op = "holiday"]
    /\ prev' = schedule
    /\ UNCHANGED <<schedule, excel, combo, clock, exports, exported>>

NextHoliday ==
    \/ ReturnToEventLoop
    \/ FetchHolidayInfo

InitHoliday == \E caches \in StartCaches : StartedWith(NoFile, caches)

SpecHoliday == InitHoliday /\ [][NextHoliday]_vars

(* ------------------------------ properties ---------------------------- *)

\* the list of a date; a date without a key has no entries
ListOf(s, d) == IF HasKey(s, d) THEN s[d] ELSE <<>>
\* the dates of every list in sight
KnownDays == Days \cup DOMAIN prev \cup DOMAIN schedule
\* d lies in the range of the recorded call
InRange(d) == last.start <= d /\ d <= last.end
\* the weekday of d is checked, with or without the bi-weekly flag
BiweeklyDay(d) ==
    InRange(d) /\ last.info[DayOfWeek(d)].enabled /\ last.info[DayOfWeek(d)].biweekly
PlainDay(d) ==
    InRange(d) /\ last.info[DayOfWeek(d)].enabled /\ ~last.info[DayOfWeek(d)].biweekly
\* the shift of the last entry of d
LastShift(s, d) == s[d][Len(s[d])].shift
\* the shifts of a roster, entry by entry
ShiftsIn(s) == [k \in DOMAIN s |-> [i \in 1 .. Len(s[k]) |-> s[k][i].shift]]
\* the positions 0 .. len-1 of the list the recorded call addressed
ValidIndex(idx) == 0 <= idx /\ idx < Len(ListOf(prev, last.date))

\* the entries of a roster and the rows of a file as (date, name, shift,
\* absent, tardy)
RECURSIVE EntryBag(_, _)
EntryBag(s, keys) ==
    IF keys = {} THEN EmptyBag
    ELSE LET k == CHOOSE x \in keys : TRUE
         IN BagOfSeq([i \in 1 .. Len(s[k]) |->
                        <<k, s[k][i].name, s[k][i].shift, s[k][i].absent, s[k][i].tardy>>])
            (+) EntryBag(s, keys \ {k})
RowBag(f) ==
    BagOfSeq([i \in 1 .. Len(f.rows) |->
                <<f.rows[i].date, f.rows[i].name, f.rows[i].shift,
                  f.rows[i].absent = "True", f.rows[i].tardy = "True">>])
WellFormed(f) ==
    /\ f.exists
    /\ f.cols = "v5"
    /\ \A i \in 1 .. Len(f.rows) :
         /\ f.rows[i].valid
         /\ f.rows[i].absent \in {"True", "False"}
         /\ f.rows[i].tardy \in {"True", "False"}

MutatingOps == {"add", "delete", "toggle", "attendance", "ctxadd", "ctxdelete"}

\* C1: whatever calls of the store and of the context menu are chained from
\* an empty or a loaded roster, no date key of the roster maps to an empty
\* list.
C1_NoEmptyList == \A k \in DOMAIN schedule : schedule[k] # <<>>

\* C2: after add_schedule, every date d of the range whose weekday is checked
\* with the bi-weekly flag has exactly one more entry, added after the ones it
\* had, for the given name, not absent, not tardy, with the base shift when
\* (d - start) div 7 is even and the other shift when it is odd; the first
\* occurrence of the weekday in the range carries the base shift and two
\* successive occurrences carry different shifts.
C2_BiweeklyAlternates ==
    last.op = "add" =>
        \A d \in Days : BiweeklyDay(d) =>
            LET base == last.info[DayOfWeek(d)].base
                other == IF base = "AM" THEN "PM" ELSE "AM"
                before == ListOf(prev, d)
            IN /\ HasKey(schedule, d)
               /\ Len(schedule[d]) = Len(before) + 1
               /\ SubSeq(schedule[d], 1, Len(before)) = before
               /\ schedule[d][Len(schedule[d])] =
                      [name |-> last.name,
                       shift |-> IF ((d - last.start) \div 7) % 2 = 0 THEN base ELSE other,
                       absent |-> FALSE, tardy |-> FALSE]
               /\ (d - 7 < last.start => LastShift(schedule, d) = base)
               /\ (d + 7 <= last.end =>
                      /\ HasKey(schedule, d + 7)
                      /\ {LastShift(schedule, d), LastShift(schedule, d + 7)} = {"AM", "PM"})

\* C2 happens: a range that starts on another weekday holds three occurrences
\* of a bi-weekly weekday, the first on a date that already had entries.
C2_Witness ==
    /\ last.op = "add"
    /\ \E d \in Days :
         /\ last.start < d /\ d < last.start + 7
         /\ HasKey(prev, d)
         /\ BiweeklyDay(d) /\ BiweeklyDay(d + 14)

\* C3: after add_schedule, a date of the range whose weekday is checked
\* without the bi-weekly flag holds the entries it had followed by one entry
\* (name, shift, not absent, not tardy) per shift of the list, in the order of
\* the list; a date outside the range or whose weekday is not checked keeps
\* its list and gains no key; no entry that existed is changed.
C3_PlainFanOut ==
    last.op = "add" =>
        \A d \in KnownDays :
            LET before == ListOf(prev, d)
                after == ListOf(schedule, d)
            IN /\ Len(after) >= Len(before)
               /\ SubSeq(after, 1, Len(before)) = before
               /\ PlainDay(d) =>
                      /\ HasKey(schedule, d)
                      /\ after = before \o [i \in 1 .. Len(last.shifts) |->
                                               [name |-> last.name, shift |-> last.shifts[i],
                                                absent |-> FALSE, tardy |-> FALSE]]
               /\ ~(InRange(d) /\ last.info[DayOfWeek(d)].enabled) =>
                      /\ after = before
                      /\ HasKey(schedule, d) <=> HasKey(prev, d)

\* C3 happens: both shifts are added on a date that had entries, while
\* another date with entries is left out by the rule or by the range.
C3_Witness ==
    /\ last.op = "add"
    /\ last.shifts = <<"AM", "PM">>
    /\ \E d \in DOMAIN prev : PlainDay(d) /\ Len(schedule[d]) = Len(prev[d]) + 2
    /\ \E d \in DOMAIN prev : ~(InRange(d) /\ last.info[DayOfWeek(d)].enabled)

\* C4: when a mutating call of the store or of the context menu has returned
\* after saving, the file is a five-column sheet whose rows, as a multiset of
\* (date, name, shift, absent, tardy), are the entries of the roster; when it
\* has returned without saving, the roster is the one it found.
C4_Persisted ==
    /\ (last.op \in MutatingOps /\ last.result = "ok") =>
           /\ WellFormed(excel)
           /\ RowBag(excel) = EntryBag(schedule, DOMAIN schedule)
    /\ (last.op \in MutatingOps /\ last.result = "noop") => schedule = prev

\* C4 happens: the context menu removed an entry and left another, marked
\* absent, which the file holds.
C4_Witness ==
    /\ last.op = "ctxdelete"
    /\ last.result = "ok"
    /\ EntryCount(schedule) < EntryCount(prev)
    /\ \E k \in DOMAIN schedule : \E i \in 1 .. Len(schedule[k]) : schedule[k][i].absent

\* C5: the store started on a file of the three-column layout holds one entry
\* per row of that file whose date is valid, each neither absent nor tardy,
\* and the file still holds the rows it had.
C5_OldSchemaLoads ==
    (last.op = "init" /\ last.found.exists /\ last.found.cols = "v3") =>
        /\ EntryCount(schedule) =
               Cardinality({i \in 1 .. Len(last.found.rows) : last.found.rows[i].valid})
        /\ \A k \in DOMAIN schedule : \A i \in 1 .. Len(schedule[k]) :
               ~schedule[k][i].absent /\ ~schedule[k][i].tardy
        /\ Len(excel.rows) = Len(last.found.rows)

\* C6: toggle_shift called for a date that has a list, with an index outside
\* 0 .. len-1 in its index list, ends in an error and leaves the shift of
\* every entry of the roster as it was.
C6_BadIndexFails ==
    (/\ last.op = "toggle"
     /\ HasKey(prev, last.date)
     /\ \E i \in 1 .. Len(last.indices) : ~ValidIndex(last.indices[i])) =>
        /\ last.result = "IndexError"
        /\ ShiftsIn(schedule) = ShiftsIn(prev)

\* C7: after toggle_shift with valid indices, the same call once more gives
\* every entry of the roster the shift it had before the first call.
C7_ToggleTwiceRestores ==
    (/\ last.op = "toggle"
     /\ HasKey(prev, last.date)
     /\ \A i \in 1 .. Len(last.indices) : ValidIndex(last.indices[i])) =>
        ShiftsIn(toggle_shift(schedule, excel, last.date, last.indices).sched) = ShiftsIn(prev)

\* C8: after delete_schedule(name, start, end), the list of a date in the
\* range is the list it had without the entries of that name, the others
\* unchanged and in their order, and the date has a key exactly when that
\* list is not empty; a date outside the range keeps its key and its list.
C8_DeleteExact ==
    last.op = "delete" =>
        \A d \in KnownDays :
            LET before == ListOf(prev, d)
                after == ListOf(schedule, d)
            IN IF InRange(d)
               THEN /\ after = SelectSeq(before, LAMBDA e : e.name # last.name)
                    /\ HasKey(schedule, d) <=> after # <<>>
               ELSE /\ after = before
                    /\ HasKey(schedule, d) <=> HasKey(prev, d)

\* C8 happens: a date of the range loses an entry between two different
\* entries of another name, while a date outside the range has entries.
C8_Witness ==
    /\ last.op = "delete"
    /\ \E d \in DOMAIN schedule :
         /\ InRange(d)
         /\ Len(prev[d]) = 3 /\ Len(schedule[d]) = 2
         /\ prev[d][2].name = last.name
         /\ schedule[d][1] # schedule[d][2]
    /\ \E d \in DOMAIN prev : ~InRange(d)

\* C9: after delete_schedule(name, start, end), the same call once more
\* leaves the roster and the rows of the file as they are.
C9_DeleteIdempotent ==
    last.op = "delete" =>
        LET again == delete_schedule(schedule, excel, last.name, last.start, last.end)
        IN /\ again.sched = schedule
           /\ again.file.rows = excel.rows

\* C9 happens: the first call removed two entries or more and left others in
\* the roster.
C9_Witness ==
    /\ last.op = "delete"
    /\ EntryCount(prev) >= EntryCount(schedule) + 2
    /\ schedule # EmptySchedule

\* C10: in the window started without a file and driven by the user, every
\* entry of the roster has a non-empty name, and an add request whose name is
\* empty leaves the roster as it was.
C10_NamesNonEmpty ==
    /\ \A k \in DOMAIN schedule : \A i \in 1 .. Len(schedule[k]) : schedule[k][i].name # ""
    /\ (last.op \in {"uiadd", "ctxadd"} /\ last.name = "") => schedule = prev

\* C11: every export call writes a file of its own: the names returned by
\* the calls are pairwise different, and the file of each call still holds
\* the rows that call wrote, whatever was exported or changed afterwards.
C11_ExportsKept ==
    /\ \A i, j \in 1 .. Len(exported) : i # j => exported[i].file # exported[j].file
    /\ \A i \in 1 .. Len(exported) :
         /\ exported[i].file \in DOMAIN exports
         /\ exports[exported[i].file] = exported[i].rows

\* the rows of a file as a set
RowSet(f) == {f.rows[i] : i \in 1 .. Len(f.rows)}

\* C12: load_schedule on the persisted file followed by save_schedule, with
\* no mutation in between, leaves the file with the set of rows it had.
C12_LoadSaveFixedPoint == RowSet(SaveSchedule(LoadSchedule(excel))) = RowSet(excel)

\* the entries of lst whose positions, counted from pos, are not in sel
RECURSIVE Unselected(_, _, _)
Unselected(lst, pos, sel) ==
    IF lst = <<>> THEN <<>>
    ELSE (IF pos \in sel THEN <<>> ELSE <<Head(lst)>>) \o Unselected(Tail(lst), pos + 1, sel)

\* the positions the recorded call was given
Selected == {last.indices[i] : i \in 1 .. Len(last.indices)}

\* C13: after the context-menu removal of the checked positions of a date,
\* the list of the date is the list it had without the entries at those
\* positions, the others unchanged and in their order; the date has a key
\* exactly when an entry is left; the other dates keep key and list; when the
\* dialog is cancelled or nothing is checked the roster is as it was.
C13_RemovalExact ==
    /\ (last.op = "ctxdelete" /\ last.result = "ok") =>
           /\ HasKey(prev, last.date)
           /\ ListOf(schedule, last.date) = Unselected(prev[last.date], 0, Selected)
           /\ HasKey(schedule, last.date) <=> Selected # 0 .. (Len(prev[last.date]) - 1)
           /\ \A d \in KnownDays \ {last.date} :
                  /\ HasKey(schedule, d) <=> HasKey(prev, d)
                  /\ ListOf(schedule, d) = ListOf(prev, d)
    /\ (last.op = "ctxdelete" /\ last.result = "noop") => schedule = prev

\* C13 happens: the first two of three entries are removed, the third differs
\* from the second and stays.
C13_Witness ==
    /\ last.op = "ctxdelete"
    /\ last.result = "ok"
    /\ last.indices = <<0, 1>>
    /\ Len(prev[last.date]) = 3
    /\ prev[last.date][2] # prev[last.date][3]
    /\ schedule[last.date] = <<prev[last.date][3]>>

\* C14: after an accepted attendance change on a date, the list of the date
\* has the length it had, every entry keeps its name and its shift and has
\* absent and tardy equal to the two values given for it; the other dates keep
\* key and list; after a cancelled dialog the roster is as it was.
C14_AttendanceReplace ==
    /\ (last.op = "attendance" /\ last.result = "ok") =>
           /\ HasKey(prev, last.date) /\ HasKey(schedule, last.date)
           /\ Len(schedule[last.date]) = Len(prev[last.date])
           /\ Len(last.flags) = Len(prev[last.date])
           /\ \A i \in 1 .. Len(prev[last.date]) :
                  /\ schedule[last.date][i].name = prev[last.date][i].name
                  /\ schedule[last.date][i].shift = prev[last.date][i].shift
                  /\ schedule[last.date][i].absent = last.flags[i][1]
                  /\ schedule[last.date][i].tardy = last.flags[i][2]
           /\ \A d \in KnownDays \ {last.date} :
                  /\ HasKey(schedule, d) <=> HasKey(prev, d)
                  /\ ListOf(schedule, d) = ListOf(prev, d)
    /\ (last.op = "attendance" /\ last.result = "noop") => schedule = prev

\* C14 happens: one entry that had neither flag gets both, another that was
\* absent gets none.
C14_Witness ==
    /\ last.op = "attendance"
    /\ last.result = "ok"
    /\ \E i, j \in 1 .. Len(prev[last.date]) :
         /\ ~prev[last.date][i].absent /\ ~prev[last.date][i].tardy
         /\ schedule[last.date][i].absent /\ schedule[last.date][i].tardy
         /\ prev[last.date][j].absent
         /\ ~schedule[last.date][j].absent /\ ~schedule[last.date][j].tardy

\* the names update_del_combo offers for roster s
Offered(s) == update_del_combo(EmptyCombo, s).items

\* C15: the names update_del_combo builds from the roster are the names of
\* its entries: every item is the name of some entry, the name of every entry
\* is an item, and no name is an item twice.
C15_DistinctNames ==
    /\ \A i \in 1 .. Len(Offered(schedule)) :
         \E k \in DOMAIN schedule : \E e \in 1 .. Len(schedule[k]) :
             schedule[k][e].name = Offered(schedule)[i]
    /\ \A k \in DOMAIN schedule : \A e \in 1 .. Len(schedule[k]) :
         \E i \in 1 .. Len(Offered(schedule)) : Offered(schedule)[i] = schedule[k][e].name
    /\ \A i, j \in 1 .. Len(Offered(schedule)) :
         i # j => Offered(schedule)[i] # Offered(schedule)[j]

\* C15 happens: after a call, a name is carried by entries of two dates and
\* another name stands behind it in a list.
C15_Witness ==
    /\ last.op # "init"
    /\ \E k, m \in DOMAIN schedule :
         /\ k # m
         /\ schedule[k][1].name = schedule[m][1].name
         /\ Len(schedule[k]) >= 2
         /\ schedule[k][2].name # schedule[k][1].name
    /\ Len(Offered(schedule)) = 2

\* the entries of lst behind its first n
Behind(lst, n) == SubSeq(lst, n + 1, Len(lst))

\* C16: after add_schedule, the same call once more appends to every date the
\* entries the first call appended there, behind them; and what a call
\* appends to a date is what it puts there when the roster is empty.
C16_NoDeduplication ==
    last.op = "add" =>
        LET again == add_schedule(schedule, excel, last.name, last.shifts, last.info,
                                  last.start, last.end).sched
            alone == add_schedule(EmptySchedule, EmptyFile, last.name, last.shifts, last.info,
                                  last.start, last.end).sched
        IN \A d \in KnownDays :
               LET had == Len(ListOf(prev, d))
                   once == ListOf(schedule, d)
                   twice == ListOf(again, d)
               IN /\ Len(twice) >= Len(once)
                  /\ SubSeq(twice, 1, Len(once)) = once
                  /\ Behind(twice, Len(once)) = Behind(once, had)
                  /\ Behind(once, had) = ListOf(alone, d)

\* C16 happens: both shifts are added on a date that already held an entry
\* equal to one of those added, and a bi-weekly date lies in the range.
C16_Witness ==
    /\ last.op = "add"
    /\ last.shifts = <<"AM", "PM">>
    /\ \E d \in DOMAIN prev :
         /\ PlainDay(d)
         /\ \E i \in 1 .. Len(prev[d]) : prev[d][i] = schedule[d][Len(prev[d]) + 1]
    /\ \E d \in Days : BiweeklyDay(d)

\* C17: a call that has nothing to do returns without an error and leaves the
\* keys and the lists of the roster as they were: delete_schedule for a name
\* no entry of the range carries, add_schedule with no weekday checked,
\* toggle_shift for a date without a key.
C17_ZeroEffect ==
    /\ (/\ last.op = "delete"
        /\ \A d \in DOMAIN prev : InRange(d) =>
               \A i \in 1 .. Len(prev[d]) : prev[d][i].name # last.name) =>
           last.result # "IndexError" /\ schedule = prev
    /\ (last.op = "add" /\ \A w \in Weekdays : ~last.info[w].enabled) =>
           last.result # "IndexError" /\ schedule = prev
    /\ (last.op = "toggle" /\ ~HasKey(prev, last.date)) =>
           last.result # "IndexError" /\ schedule = prev

\* a checked weekday of the recorded rule carries the bi-weekly flag
UsesBiweekly == \E w \in Weekdays : last.info[w].enabled /\ last.info[w].biweekly

\* C18: an add request of the form with a name, a range and neither AM nor PM
\* checked is refused exactly when no checked weekday is bi-weekly; when one
\* is, the request goes through and the roster is the one add_schedule gives.
C18_EmptyShiftsRule ==
    (/\ last.op = "uiadd"
     /\ last.name # ""
     /\ last.indices # NoRange
     /\ last.shifts = <<>>) =>
        /\ last.result = "rejected" <=> ~UsesBiweekly
        /\ UsesBiweekly =>
               schedule = add_schedule(prev, EmptyFile, last.name, last.shifts, last.info,
                                       last.indices[1], last.indices[2]).sched

\* C19: toggle_shift with valid, pairwise different indices on a date that
\* has a list returns normally; an addressed entry that had AM has PM and one
\* that had PM has AM; every other entry keeps its shift; every entry keeps
\* name, absent and tardy; the list keeps its length and order; the other
\* dates keep key and list.
C19_ToggleFrame ==
    (/\ last.op = "toggle"
     /\ HasKey(prev, last.date)
     /\ \A i \in 1 .. Len(last.indices) : ValidIndex(last.indices[i])
     /\ \A i, j \in 1 .. Len(last.indices) : i # j => last.indices[i] # last.indices[j]) =>
        /\ last.result = "ok"
        /\ HasKey(schedule, last.date)
        /\ Len(schedule[last.date]) = Len(prev[last.date])
        /\ \A p \in 1 .. Len(prev[last.date]) :
               LET was == prev[last.date][p]
                   is == schedule[last.date][p]
               IN /\ is.name = was.name /\ is.absent = was.absent /\ is.tardy = was.tardy
                  /\ (p - 1 \in Selected /\ was.shift = "AM") => is.shift = "PM"
                  /\ (p - 1 \in Selected /\ was.shift = "PM") => is.shift = "AM"
                  /\ p - 1 \notin Selected => is.shift = was.shift
        /\ \A d \in KnownDays \ {last.date} :
               /\ HasKey(schedule, d) <=> HasKey(prev, d)
               /\ ListOf(schedule, d) = ListOf(prev, d)

\* C19 happens: of three entries an AM one and a PM one are addressed, the
\* later first, a third is not, and another date has entries.
C19_Witness ==
    /\ last.op = "toggle"
    /\ Len(last.indices) = 2
    /\ last.indices[1] > last.indices[2]
    /\ HasKey(prev, last.date)
    /\ Len(prev[last.date]) = 3
    /\ \A i \in 1 .. 2 : ValidIndex(last.indices[i])
    /\ {prev[last.date][last.indices[i] + 1].shift : i \in 1 .. 2} = {"AM", "PM"}
    /\ \E d \in DOMAIN prev : d # last.date

\* C20: after a range add, a range delete, a context-menu add or a
\* context-menu removal that changed the roster, the names del_name_combo
\* offers are the names of the entries of the roster.
C20_ComboFollowsRoster ==
    (last.op \in {"uiadd", "uidelete", "ctxadd", "ctxdelete"} /\ schedule # prev) =>
        {combo.items[i] : i \in 1 .. Len(combo.items)} =
            UNION {{schedule[k][e].name : e \in 1 .. Len(schedule[k])} : k \in DOMAIN schedule}

\* the next lookup of year y is answered from the cache file
Cached(y) == holidays[y].exists /\ holidays[y].readable

\* C21: a lookup that went to the service leaves a readable cache file for
\* its year only when the key was read and all twelve requests succeeded;
\* after a lookup in which the key or a request failed, the year has no
\* readable cache file, so the next lookup of the year asks the service again.
C21_CacheOnlyComplete ==
    (last.op = "holiday" /\ ~lookup.hit) =>
        /\ Cached(lookup.year) =>
               /\ lookup.keyOk
               /\ lookup.requested = Months
               /\ lookup.failed = {}
        /\ (~lookup.keyOk \/ lookup.failed # {}) =>
               /\ ~Cached(lookup.year)
               /\ ~fetch_holiday_info_for_year(holidays, lookup.year, TRUE, {}, TRUE).hit

====
